---- MODULE Spec2Model ----
(***************************************************************************)
(* Login with lockout of crud-senai-api: loginWithLock (auth.service.js)   *)
(* running as concurrent calls against the users table, together with the  *)
(* user-update operation of users.service.js that changes account status.  *)
(*                                                                         *)
(* Time is counted in minutes.  A DATETIME column is either NULL or <<t>>. *)
(* response holds the result a call returns in the step that returns it    *)
(* and is empty after any other step.                                      *)
(* Each login call is split at its awaits: the SELECT, the resumption that *)
(* evaluates the gates, the resolution of bcrypt.compare, and the UPDATE   *)
(* followed by the return.                                                 *)
(*                                                                         *)
(* attempts[id] counts the wrong-password attempts that passed the gates   *)
(* for account id since its last reset UPDATE; calls counts the calls      *)
(* started where the number of calls is bounded.  Neither is read by the   *)
(* program.                                                                *)
(*                                                                         *)
(* http holds the reply an Express handler sends in the step that sends it *)
(* (status, JSON body, and what the error middleware logged) and is empty  *)
(* after any other step.  tokens is the set of tokens that clients keep    *)
(* from the bodies of successful logins.  creating[c] holds the data of a  *)
(* createUser call between its SELECT and its INSERT.                      *)
(***************************************************************************)
EXTENDS Integers, Sequences, FiniteSets, TLC

VARIABLES users, now, login, response, attempts, calls, http, tokens,
          creating

vars ==
  <<users, now, login, response, attempts, calls, http, tokens, creating>>

----------------------------------------------------------------------------
(* Bounds of the model *)

NProcs == 2

MaxTime == 6

MaxCalls == 4

(* Program constants *)

MAX == 3

LOCK_MINUTES == 5

JWT_EXPIRES_MINUTES == 60

FAILED_ATTEMPTS_CAP == 255

----------------------------------------------------------------------------
(* Values *)

Procs == 1..NProcs

BurstProcs == 1..MAX

AllProcs == Procs \cup BurstProcs

Creators == 1..NProcs

NULL == <<>>

Passwords == {"senhaA1", "senhaB2"}

Emails == {"a@x.com", "b@x.com", "c@x.com"}

invalidMsg == "Credenciais inválidas."

inactiveMsg == "Usuário inativo."

lockedMsg == "Usuário bloqueado temporariamente."

justLockedMsg == "3 tentativas incorretas. Usuário bloqueado."

BcryptHash(password) == <<"bcrypt", password>>

BcryptCompare(password, hash) == hash = BcryptHash(password)

InitialUsers ==
  [id \in {1, 2} |->
     [id |-> id,
      name |-> IF id = 1 THEN "Ana" ELSE "Bia",
      email |-> IF id = 1 THEN "a@x.com" ELSE "b@x.com",
      password_hash |-> BcryptHash(IF id = 1 THEN "senhaA1" ELSE "senhaB2"),
      profile |-> IF id = 1 THEN "ADMIN" ELSE "USER",
      status |-> "ACTIVE",
      failed_attempts |-> 0,
      locked_until |-> NULL]]

----------------------------------------------------------------------------
(* Helpers of loginWithLock *)

Min(a, b) == IF a < b THEN a ELSE b

nowPlusMinutes(min) == <<now + min>>

SelectByEmail(email) ==
  LET ids == {id \in DOMAIN users : users[id].email = email}
  IN  IF ids = {} THEN {<<>>} ELSE {<<users[id]>> : id \in ids}

IsLockedInclusive(user, t) == user.locked_until # NULL /\ user.locked_until[1] >= t

IsLockedReversed(user, t) == user.locked_until # NULL /\ user.locked_until[1] < t

IsLocked(user, t) == user.locked_until # NULL /\ user.locked_until[1] > t

GateLockFirst(rows, t) ==
  IF Len(rows) = 0 THEN "unknown"
  ELSE IF IsLocked(rows[1], t) THEN "locked"
  ELSE IF rows[1].status # "ACTIVE" THEN "inactive"
  ELSE "verify"

GateNoLock(rows, t) ==
  IF Len(rows) = 0 THEN "unknown"
  ELSE IF rows[1].status # "ACTIVE" THEN "inactive"
  ELSE "verify"

Gate(rows, t) ==
  IF Len(rows) = 0 THEN "unknown"
  ELSE IF rows[1].status # "ACTIVE" THEN "inactive"
  ELSE IF IsLocked(rows[1], t) THEN "locked"
  ELSE "verify"

NewFailsWraps(user) == (user.failed_attempts + 1) % (FAILED_ATTEMPTS_CAP + 1)

(* The count starts again once a lock has been served *)
NewFailsAfterExpiry(user) ==
  IF user.locked_until # NULL THEN 1
  ELSE Min(user.failed_attempts + 1, FAILED_ATTEMPTS_CAP)

NewFails(user) == Min(user.failed_attempts + 1, FAILED_ATTEMPTS_CAP)

ReachedMaxStrict(newFails) == newFails > MAX

ReachedMaxEarly(newFails) == newFails >= MAX - 1

ReachedMax(newFails) == newFails >= MAX

NeedsResetAlways(user) == TRUE

NeedsResetFromZero(user) == user.failed_attempts >= 0 \/ user.locked_until # NULL

NeedsReset(user) == user.failed_attempts > 0 \/ user.locked_until # NULL

Failure(statusCode, message) ==
  [ok |-> FALSE, statusCode |-> statusCode, message |-> message]

JWT_SECRET == "process.env.JWT_SECRET"

(* The signature of a token binds its claims to the key *)
Hmac(claims, secret) == <<"HS256", secret, claims>>

Claims(token) ==
  [sub |-> token.sub, profile |-> token.profile,
   iat |-> token.iat, exp |-> token.exp]

SignToken(user) ==
  LET claims == [sub |-> ToString(user.id), profile |-> user.profile,
                 iat |-> now, exp |-> now + JWT_EXPIRES_MINUTES]
  IN  [sub |-> claims.sub, profile |-> claims.profile,
       iat |-> claims.iat, exp |-> claims.exp,
       sig |-> Hmac(claims, JWT_SECRET)]

SuccessWholeRow(user) ==
  [ok |-> TRUE, statusCode |-> 200,
   data |-> [token |-> SignToken(user), user |-> user]]

Success(user) ==
  [ok |-> TRUE, statusCode |-> 200,
   data |-> [token |-> SignToken(user),
             user |-> [id |-> user.id, name |-> user.name,
                       email |-> user.email, profile |-> user.profile]]]

GateResult(gate) ==
  IF gate = "unknown" THEN Failure(401, invalidMsg)
  ELSE IF gate = "inactive" THEN Failure(403, inactiveMsg)
  ELSE Failure(423, lockedMsg)

(* The UPDATE statements: set is the SET clause, id the WHERE id = ? *)

LockUpdateDeactivates(newFails, lockedUntil, id) ==
  [kind |-> "lock", id |-> id,
   set |-> [failed_attempts |-> newFails, locked_until |-> lockedUntil,
            status |-> "INACTIVE"]]

LockUpdate(newFails, lockedUntil, id) ==
  [kind |-> "lock", id |-> id,
   set |-> [failed_attempts |-> newFails, locked_until |-> lockedUntil]]

CountUpdate(newFails, id) ==
  [kind |-> "count", id |-> id, set |-> [failed_attempts |-> newFails]]

ResetUpdateCounterOnly(id) ==
  [kind |-> "reset", id |-> id, set |-> [failed_attempts |-> 0]]

ResetUpdate(id) ==
  [kind |-> "reset", id |-> id,
   set |-> [failed_attempts |-> 0, locked_until |-> NULL]]

NoUpdate == [kind |-> "none", id |-> 0, set |-> <<>>]

(* The statement without its WHERE clause *)
ExecuteNoWhere(table, w) ==
  [i \in DOMAIN table |->
     [f \in DOMAIN table[i] |->
        IF f \in DOMAIN w.set THEN w.set[f] ELSE table[i][f]]]

Execute(table, w) ==
  IF w.id \notin DOMAIN table THEN table
  ELSE [table EXCEPT ![w.id] =
          [f \in DOMAIN table[w.id] |->
             IF f \in DOMAIN w.set THEN w.set[f] ELSE table[w.id][f]]]

ResultOfWrongPassword(w, user) ==
  IF w.kind = "lock" THEN Failure(423, justLockedMsg)
  ELSE IF w.kind = "count" THEN Failure(401, "Senha incorreta.")
  ELSE Success(user)

ResultOf(w, user) ==
  IF w.kind = "lock" THEN Failure(423, justLockedMsg)
  ELSE IF w.kind = "count" THEN Failure(401, invalidMsg)
  ELSE Success(user)

----------------------------------------------------------------------------
(* POST /login of auth.routes.js: the reply built from the result that      *)
(* loginWithLock returned                                                   *)

Reply(status, json) == [status |-> status, json |-> json, logged |-> <<>>]

Respond(result) ==
  IF ~result.ok
  THEN Reply(result.statusCode, [message |-> result.message])
  ELSE Reply(200, result.data)

(* The error middleware of app.js: the reply to an error no handler caught  *)
internalErrorMsg == "Erro interno."

ErrorMiddlewareLeaks(err) ==
  [status |-> 500, json |-> [message |-> err], logged |-> <<err>>]

ErrorMiddleware(err) ==
  [status |-> 500, json |-> [message |-> internalErrorMsg], logged |-> <<err>>]

----------------------------------------------------------------------------
(* State of one call of loginWithLock *)

Idle ==
  [pc |-> "idle", email |-> "", password |-> "", rows |-> <<>>,
   passOk |-> <<>>, update |-> NoUpdate]

Return(p, passOk, wrote, result) ==
  /\ login' = [login EXCEPT ![p] = Idle]
  /\ response' =
       <<[email |-> login[p].email, password |-> login[p].password,
          rows |-> login[p].rows, passOk |-> passOk,
          update |-> wrote, at |-> now, result |-> result]>>
  /\ http' = <<Respond(result)>>

Init ==
  /\ users = InitialUsers
  /\ now = 0
  /\ login = [p \in AllProcs |-> Idle]
  /\ response = <<>>
  /\ attempts = [id \in DOMAIN InitialUsers |-> 0]
  /\ calls = 0
  /\ http = <<>>
  /\ tokens = {}
  /\ creating = [c \in Creators |-> <<>>]

----------------------------------------------------------------------------
(* loginWithLock *)

Select(p, email, password) ==
  /\ login[p].pc = "idle"
  /\ \E rows \in SelectByEmail(email) :
       login' = [login EXCEPT ![p] =
                   [Idle EXCEPT !.pc = "gates", !.email = email,
                                !.password = password, !.rows = rows]]
  /\ response' = <<>>
  /\ http' = <<>>
  /\ UNCHANGED <<users, now, attempts, tokens, creating>>

Call(p, email, password) ==
  /\ calls < MaxCalls
  /\ calls' = calls + 1
  /\ Select(p, email, password)

(* A call that finds the account locked waits for the lock to expire *)
GatesWaitsForExpiry(p) ==
  /\ login[p].pc = "gates"
  /\ LET gate == Gate(login[p].rows, now)
     IN  IF gate = "locked"
         THEN UNCHANGED <<login, response, http>>
         ELSE IF gate # "verify"
         THEN Return(p, <<>>, NoUpdate, GateResult(gate))
         ELSE /\ login' = [login EXCEPT ![p].pc = "compare"]
              /\ response' = <<>>
              /\ http' = <<>>
  /\ UNCHANGED <<users, now, attempts, calls, tokens, creating>>

Gates(p) ==
  /\ login[p].pc = "gates"
  /\ LET gate == Gate(login[p].rows, now)
     IN  IF gate # "verify"
         THEN Return(p, <<>>, NoUpdate, GateResult(gate))
         ELSE /\ login' = [login EXCEPT ![p].pc = "compare"]
              /\ response' = <<>>
              /\ http' = <<>>
  /\ UNCHANGED <<users, now, attempts, calls, tokens, creating>>

(* The UPDATE is started and not awaited: the call hands its result back   *)
(* while the statement is still to be executed                             *)
CompareDetached(p) ==
  /\ login[p].pc = "compare"
  /\ LET user == login[p].rows[1]
         passOk == BcryptCompare(login[p].password, user.password_hash)
         newFails == NewFails(user)
         w == IF ~passOk
              THEN IF ReachedMax(newFails)
                   THEN LockUpdate(newFails, nowPlusMinutes(LOCK_MINUTES), user.id)
                   ELSE CountUpdate(newFails, user.id)
              ELSE IF NeedsReset(user) THEN ResetUpdate(user.id)
              ELSE NoUpdate
     IN  /\ login' = IF w = NoUpdate
                     THEN [login EXCEPT ![p] = Idle]
                     ELSE [login EXCEPT ![p].pc = "update",
                                        ![p].passOk = <<passOk>>,
                                        ![p].update = w]
         /\ response' =
              <<[email |-> login[p].email, password |-> login[p].password,
                 rows |-> login[p].rows, passOk |-> <<passOk>>,
                 update |-> w, at |-> now, result |-> ResultOf(w, user)]>>
         /\ http' = <<Respond(ResultOf(w, user))>>
         /\ attempts' = IF ~passOk
                        THEN [attempts EXCEPT ![user.id] = @ + 1]
                        ELSE attempts
  /\ UNCHANGED <<users, now, calls, tokens, creating>>

Compare(p) ==
  /\ login[p].pc = "compare"
  /\ LET user == login[p].rows[1]
         passOk == BcryptCompare(login[p].password, user.password_hash)
         newFails == NewFails(user)
     IN  IF ~passOk
         THEN /\ login' = [login EXCEPT
                   ![p].pc = "update", ![p].passOk = <<FALSE>>,
                   ![p].update =
                      IF ReachedMax(newFails)
                      THEN LockUpdate(newFails, nowPlusMinutes(LOCK_MINUTES), user.id)
                      ELSE CountUpdate(newFails, user.id)]
              /\ attempts' = [attempts EXCEPT ![user.id] = @ + 1]
              /\ response' = <<>>
              /\ http' = <<>>
         ELSE IF NeedsReset(user)
         THEN /\ login' = [login EXCEPT
                   ![p].pc = "update", ![p].passOk = <<TRUE>>,
                   ![p].update = ResetUpdate(user.id)]
              /\ response' = <<>>
              /\ http' = <<>>
              /\ UNCHANGED attempts
         ELSE /\ Return(p, <<TRUE>>, NoUpdate, Success(user))
              /\ UNCHANGED attempts
  /\ UNCHANGED <<users, now, calls, tokens, creating>>

Update(p) ==
  /\ login[p].pc = "update"
  /\ LET w == login[p].update
     IN  /\ users' = Execute(users, w)
         /\ Return(p, login[p].passOk, w, ResultOf(w, login[p].rows[1]))
         /\ attempts' = IF w.kind = "reset"
                        THEN [attempts EXCEPT ![w.id] = 0]
                        ELSE attempts
  /\ UNCHANGED <<now, calls, tokens, creating>>

----------------------------------------------------------------------------
(* updateUser / updateUserStatus of users.service.js *)

UpdatableKeysWithCounters ==
  {"name", "email", "profile", "status",
   "failed_attempts", "locked_until", "password_hash"}

UpdatableKeys == {"name", "email", "profile", "status"}

Payloads == {[status |-> "ACTIVE"], [status |-> "INACTIVE"]}

(* The table admits one row per email: a statement that would leave two    *)
(* rows with the same email is rejected and changes nothing                 *)
DuplicateEntryNever(table, email) == FALSE

DuplicateEntry(table, email) == \E id \in DOMAIN table : table[id].email = email

OtherRows(table, id) == [i \in DOMAIN table \ {id} |-> table[i]]

(* An UPDATE that the table rejects throws in the handler of PUT /users/:id, *)
(* which has no catch: 500 of the error middleware or no reply at all        *)
UpdateUser(id, payload) ==
  /\ IF /\ id \in DOMAIN users
        /\ "email" \in DOMAIN payload
        /\ DuplicateEntry(OtherRows(users, id), payload.email)
     THEN /\ users' = users
          /\ http' \in {<<>>, <<ErrorMiddleware("ER_DUP_ENTRY")>>}
     ELSE /\ users' =
               IF id \notin DOMAIN users THEN users
               ELSE [users EXCEPT ![id] =
                       [f \in DOMAIN users[id] |->
                          IF f \in UpdatableKeys /\ f \in DOMAIN payload
                          THEN payload[f] ELSE users[id][f]]]
          /\ http' = <<>>
  /\ response' = <<>>
  /\ UNCHANGED <<now, login, attempts, calls, tokens, creating>>

UpdateUserStatus(id, status) == UpdateUser(id, [status |-> status])

----------------------------------------------------------------------------
(* Passage of time *)

Tick ==
  /\ now < MaxTime
  /\ now' = now + 1
  /\ response' = <<>>
  /\ http' = <<>>
  /\ UNCHANGED <<users, login, attempts, calls, tokens, creating>>

----------------------------------------------------------------------------

Next ==
  \/ \E p \in Procs, email \in Emails, password \in Passwords :
       Call(p, email, password)
  \/ \E p \in AllProcs : Gates(p)
  \/ \E p \in AllProcs : Compare(p)
  \/ \E p \in AllProcs : Update(p)
  \/ \E id \in {1, 2, 3}, status \in {"ACTIVE", "INACTIVE"} :
       UpdateUserStatus(id, status)
  \/ Tick

Spec == Init /\ [][Next]_vars

----------------------------------------------------------------------------
(* Sequential execution: a call starts only when no other call is in flight *)

AllIdle == \A q \in AllProcs : login[q].pc = "idle"

SeqCall(p, email, password) ==
  /\ AllIdle
  /\ Select(p, email, password)
  /\ UNCHANGED calls

SeqNext ==
  \/ \E p \in Procs, email \in Emails, password \in Passwords :
       SeqCall(p, email, password)
  \/ \E p \in AllProcs : Gates(p)
  \/ \E p \in AllProcs : Compare(p)
  \/ \E p \in AllProcs : Update(p)
  \/ \E id \in {1, 2, 3}, status \in {"ACTIVE", "INACTIVE"} :
       UpdateUserStatus(id, status)
  \/ Tick

SpecSeq == Init /\ [][SeqNext]_vars

----------------------------------------------------------------------------
(* A burst of parallel wrong-password calls against the existing accounts *)

WrongPassword(email, password) ==
  /\ \E id \in DOMAIN users : users[id].email = email
  /\ \A id \in DOMAIN users :
       users[id].email = email => ~BcryptCompare(password, users[id].password_hash)

BurstCall(p, email, password) ==
  /\ WrongPassword(email, password)
  /\ Call(p, email, password)

BurstNext ==
  \/ \E p \in BurstProcs, email \in Emails, password \in Passwords :
       BurstCall(p, email, password)
  \/ \E p \in BurstProcs : Gates(p)
  \/ \E p \in BurstProcs : Compare(p)
  \/ \E p \in BurstProcs : Update(p)
  \/ Tick

SpecBurst == Init /\ [][BurstNext]_vars

----------------------------------------------------------------------------
(* Request bodies of POST /login.  A JSON value is a string, given as the   *)
(* sequence of its characters, a number, or undefined (field absent).       *)

Str(chars) == [type |-> "string", chars |-> chars]

Num(n) == [type |-> "number", value |-> n]

Undefined == [type |-> "undefined"]

PASSWORD_MIN == 6

PASSWORD_MAX == 100

UpperCase == <<"A", "B", "C", "M", "O", "X">>

LowerCase == <<"a", "b", "c", "m", "o", "x">>

Letters == {UpperCase[i] : i \in 1..Len(UpperCase)}
             \cup {LowerCase[i] : i \in 1..Len(LowerCase)}

Digits == {"0", "1", "2"}

WhiteSpace == {" ", "\t"}

RECURSIVE Join(_)
Join(chars) == IF chars = <<>> THEN "" ELSE chars[1] \o Join(Tail(chars))

RECURSIVE TrimStart(_)
TrimStart(chars) ==
  IF chars # <<>> /\ chars[1] \in WhiteSpace THEN TrimStart(Tail(chars))
  ELSE chars

RECURSIVE TrimEnd(_)
TrimEnd(chars) ==
  IF chars # <<>> /\ chars[Len(chars)] \in WhiteSpace
  THEN TrimEnd(SubSeq(chars, 1, Len(chars) - 1))
  ELSE chars

Trim(chars) == TrimEnd(TrimStart(chars))

ToLowerCase(chars) ==
  [i \in 1..Len(chars) |->
     IF \E k \in 1..Len(UpperCase) : UpperCase[k] = chars[i]
     THEN LowerCase[CHOOSE k \in 1..Len(UpperCase) : UpperCase[k] = chars[i]]
     ELSE chars[i]]

(* The labels of a domain: the pieces between its dots *)
RECURSIVE Labels(_, _)
Labels(chars, label) ==
  IF chars = <<>> THEN <<label>>
  ELSE IF chars[1] = "." THEN <<label>> \o Labels(Tail(chars), <<>>)
  ELSE Labels(Tail(chars), Append(label, chars[1]))

(* The address test of z.string().email(), without regard to case: a local  *)
(* part of letters, digits and _ ' + - . that does not begin with a dot and *)
(* ends in a letter, a digit or _ + -, one @, one or more labels of         *)
(* letters, digits and - that begin with a letter or a digit, each followed *)
(* by a dot, and a last label of two or more letters; no two dots in a row. *)
IsEmail(chars) ==
  LET n == Len(chars)
      ats == {i \in 1..n : chars[i] = "@"}
      at == CHOOSE i \in ats : TRUE
      local == SubSeq(chars, 1, at - 1)
      labels == Labels(SubSeq(chars, at + 1, n), <<>>)
      AlNum == Letters \cup Digits
      k == Len(labels)
  IN  /\ Cardinality(ats) = 1
      /\ chars[1] # "."
      /\ \A i \in 1..(n - 1) : ~(chars[i] = "." /\ chars[i + 1] = ".")
      /\ Len(local) >= 1
      /\ \A i \in 1..Len(local) : local[i] \in AlNum \cup {"_", "'", "+", "-", "."}
      /\ local[Len(local)] \in AlNum \cup {"_", "+", "-"}
      /\ k >= 2
      /\ \A j \in 1..(k - 1) :
           /\ Len(labels[j]) >= 1
           /\ labels[j][1] \in AlNum
           /\ \A i \in 1..Len(labels[j]) : labels[j][i] \in AlNum \cup {"-"}
      /\ Len(labels[k]) >= 2
      /\ \A i \in 1..Len(labels[k]) : labels[k][i] \in Letters

LoginSchemaNoMin(body) ==
  LET email == ToLowerCase(Trim(body.email.chars))
  IN  IF /\ body.email.type = "string"
         /\ IsEmail(email)
         /\ body.password.type = "string"
         /\ Len(body.password.chars) <= PASSWORD_MAX
      THEN [success |-> TRUE,
            data |-> [email |-> Join(email),
                      password |-> Join(body.password.chars)]]
      ELSE [success |-> FALSE]

(* loginSchema.safeParse(body) *)
LoginSchema(body) ==
  LET email == ToLowerCase(Trim(body.email.chars))
  IN  IF /\ body.email.type = "string"
         /\ IsEmail(email)
         /\ body.password.type = "string"
         /\ Len(body.password.chars) >= PASSWORD_MIN
         /\ Len(body.password.chars) <= PASSWORD_MAX
      THEN [success |-> TRUE,
            data |-> [email |-> Join(email),
                      password |-> Join(body.password.chars)]]
      ELSE [success |-> FALSE]

Repeat(c, n) == [i \in 1..n |-> c]

BodyEmails ==
  {Str(<<"b", "@", "x", ".", "c", "o", "m">>),
   Str(<<" ", "B", "@", "X", ".", "c", "o", "m", " ">>),
   Str(<<"c", "@", "x", ".", "c", "o", "m">>),
   Str(<<"b", "@", "x">>),
   Str(<<"b", "x", ".", "c", "o", "m">>),
   Str(<<"b", "@", "x", ".", ".", "c", "o", "m">>),
   Str(<<>>),
   Num(1),
   Undefined}

BodyPasswords ==
  {Str(<<"s", "e", "n", "h", "a", "B", "2">>),
   Str(<<"s", "e", "n", "h", "a", "A", "1">>),
   Str(<<"s", "e", "n", "h", "a">>),
   Str(Repeat("x", PASSWORD_MIN)),
   Str(Repeat("x", PASSWORD_MAX)),
   Str(Repeat("x", PASSWORD_MAX + 1)),
   Num(1),
   Undefined}

Bodies ==
  {[email |-> e, password |-> Str(<<"s", "e", "n", "h", "a", "B", "2">>)] :
     e \in BodyEmails}
    \cup {[email |-> Str(<<"b", "@", "x", ".", "c", "o", "m">>), password |-> pw] :
            pw \in BodyPasswords}
    \cup {[email |-> Str(<<" ", "B", "@", "X", ".", "c", "o", "m", " ">>),
           password |-> Str(<<"s", "e", "n", "h", "a", "A", "1">>)]}

----------------------------------------------------------------------------
(* POST /login with its validation and with the failures of the store       *)

invalidDataMsg == "Dados inválidos."

StoreErrors == {"ECONNREFUSED", "ER_LOCK_WAIT_TIMEOUT"}

PostLogin(p, body) ==
  /\ login[p].pc = "idle"
  /\ LET parsed == LoginSchema(body)
     IN  IF ~parsed.success
         THEN /\ http' = <<Reply(400, [message |-> invalidDataMsg])>>
              /\ response' = <<>>
              /\ UNCHANGED <<users, now, login, attempts, tokens, creating>>
         ELSE Select(p, parsed.data.email, parsed.data.password)

(* pool.execute of the SELECT rejects: the error reaches the catch of the   *)
(* route and the error middleware                                           *)
PostLoginSelectFails(p, body, err) ==
  /\ login[p].pc = "idle"
  /\ LoginSchema(body).success
  /\ http' = <<ErrorMiddleware(err)>>
  /\ response' = <<>>
  /\ UNCHANGED <<users, now, login, attempts, tokens, creating>>

(* pool.execute of the UPDATE rejects; the statement may or may not have    *)
(* been applied by the server before the failure                            *)
UpdateFails(p, err) ==
  /\ login[p].pc = "update"
  /\ LET w == login[p].update
     IN  \E applied \in BOOLEAN :
           /\ users' = IF applied THEN Execute(users, w) ELSE users
           /\ attempts' = IF applied /\ w.kind = "reset"
                          THEN [attempts EXCEPT ![w.id] = 0]
                          ELSE attempts
  /\ login' = [login EXCEPT ![p] = Idle]
  /\ http' = <<ErrorMiddleware(err)>>
  /\ response' = <<>>
  /\ UNCHANGED <<now, calls, tokens, creating>>

SeqPostLogin(p, body) ==
  /\ \A q \in AllProcs : login[q].pc = "idle"
  /\ calls < MaxCalls
  /\ calls' = calls + 1
  /\ PostLogin(p, body)

SeqPostLoginSelectFails(p, body, err) ==
  /\ \A q \in AllProcs : login[q].pc = "idle"
  /\ calls < MaxCalls
  /\ calls' = calls + 1
  /\ PostLoginSelectFails(p, body, err)

HttpNext ==
  \/ \E p \in Procs, body \in Bodies : SeqPostLogin(p, body)
  \/ \E p \in Procs, body \in Bodies, err \in StoreErrors :
       SeqPostLoginSelectFails(p, body, err)
  \/ \E p \in AllProcs : Gates(p)
  \/ \E p \in AllProcs : Compare(p)
  \/ \E p \in AllProcs : Update(p)
  \/ \E p \in AllProcs, err \in StoreErrors : UpdateFails(p, err)
  \/ \E id \in {1, 2, 3}, status \in {"ACTIVE", "INACTIVE"} :
       UpdateUserStatus(id, status)
  \/ Tick

SpecHttp == Init /\ [][HttpNext]_vars

----------------------------------------------------------------------------
(* requireAuth, requireAdmin and the routes they protect.  A token is the   *)
(* record of its claims and its signature; anything else is malformed.      *)
(* An Authorization header is absent or a prefix followed by a token.       *)

missingTokenMsg == "Token ausente."

invalidTokenMsg == "Token inválido ou expirado."

deniedMsg == "Acesso negado."

notFoundMsg == "Usuário não encontrado."

NoHeader == [absent |-> TRUE]

WellFormed(token) == DOMAIN token = {"sub", "profile", "iat", "exp", "sig"}

JwtVerifyNoSignature(token, secret) ==
  IF ~WellFormed(token) THEN [ok |-> FALSE, error |-> "jwt malformed"]
  ELSE IF now >= token.exp THEN [ok |-> FALSE, error |-> "jwt expired"]
  ELSE [ok |-> TRUE, payload |-> Claims(token)]

JwtVerifyExpiryInclusive(token, secret) ==
  IF ~WellFormed(token) THEN [ok |-> FALSE, error |-> "jwt malformed"]
  ELSE IF token.sig # Hmac(Claims(token), secret)
  THEN [ok |-> FALSE, error |-> "invalid signature"]
  ELSE IF now > token.exp THEN [ok |-> FALSE, error |-> "jwt expired"]
  ELSE [ok |-> TRUE, payload |-> Claims(token)]

(* jwt.verify(token, secret) at the current time *)
JwtVerify(token, secret) ==
  IF ~WellFormed(token) THEN [ok |-> FALSE, error |-> "jwt malformed"]
  ELSE IF token.sig # Hmac(Claims(token), secret)
  THEN [ok |-> FALSE, error |-> "invalid signature"]
  ELSE IF now >= token.exp THEN [ok |-> FALSE, error |-> "jwt expired"]
  ELSE [ok |-> TRUE, payload |-> Claims(token)]

RequireAuth(header) ==
  IF header = NoHeader \/ header.prefix # "Bearer "
  THEN [next |-> FALSE, reply |-> Reply(401, [message |-> missingTokenMsg])]
  ELSE LET verified == JwtVerify(header.rest, JWT_SECRET)
       IN  IF ~verified.ok
           THEN [next |-> FALSE,
                 reply |-> Reply(401, [message |-> invalidTokenMsg])]
           ELSE [next |-> TRUE,
                 auth |-> [userId |-> verified.payload.sub,
                           profile |-> verified.payload.profile]]

RequireAdminFromTable(auth) ==
  \E id \in DOMAIN users :
    ToString(id) = auth.userId /\ users[id].profile = "ADMIN"

RequireAdmin(auth) == auth.profile = "ADMIN"

(* What a client can put in the Authorization header: the token it keeps,   *)
(* the same token with a claim changed or signed with another key, a token  *)
(* of its own making, or text that is no token                              *)

OtherSecret == "outro-segredo"

MalformedToken == [malformed |-> "abc.def"]

ForgedToken ==
  LET claims == [sub |-> "1", profile |-> "ADMIN",
                 iat |-> now, exp |-> now + JWT_EXPIRES_MINUTES]
  IN  [sub |-> claims.sub, profile |-> claims.profile,
       iat |-> claims.iat, exp |-> claims.exp,
       sig |-> Hmac(claims, OtherSecret)]

Variants(token) ==
  {token,
   [token EXCEPT !.profile = "ADMIN"],
   [token EXCEPT !.exp = @ + JWT_EXPIRES_MINUTES],
   [token EXCEPT !.sig = Hmac(Claims(token), OtherSecret)]}

Headers ==
  {NoHeader}
    \cup {[prefix |-> "Basic ", rest |-> token] : token \in tokens}
    \cup {[prefix |-> "Bearer ", rest |-> token] :
            token \in UNION {Variants(t) : t \in tokens}
                        \cup {MalformedToken, ForgedToken}}

(* The exchange on a protected route: the request, what requireAuth put in  *)
(* req.auth, and the reply                                                  *)
Exchange(route, header, auth, reply) ==
  [route |-> route, header |-> header, at |-> now, auth |-> auth,
   status |-> reply.status, json |-> reply.json, logged |-> reply.logged]

(* setToken(data.token) of the front end after a successful login *)
SetToken ==
  /\ Len(response) = 1
  /\ response[1].result.ok
  /\ tokens' = {response[1].result.data.token}
  /\ response' = <<>>
  /\ http' = <<>>
  /\ UNCHANGED <<users, now, login, attempts, calls, creating>>

(* Logout: localStorage.removeItem("token") *)
RemoveToken ==
  /\ tokens # {}
  /\ tokens' = {}
  /\ response' = <<>>
  /\ http' = <<>>
  /\ UNCHANGED <<users, now, login, attempts, calls, creating>>

(* GET /me *)
GetMe(header) ==
  /\ LET checked == RequireAuth(header)
     IN  http' =
           IF ~checked.next
           THEN <<Exchange("GET /me", header, <<>>, checked.reply)>>
           ELSE <<Exchange("GET /me", header, <<checked.auth>>,
                           Reply(200, [ok |-> TRUE, auth |-> checked.auth]))>>
  /\ response' = <<>>
  /\ UNCHANGED <<users, now, login, attempts, calls, tokens, creating>>

GetUserById(table, id) ==
  [id |-> table[id].id, name |-> table[id].name, email |-> table[id].email,
   profile |-> table[id].profile, status |-> table[id].status]

ApplyPayload(table, id, payload) ==
  [table EXCEPT ![id] =
     [f \in DOMAIN table[id] |->
        IF f \in UpdatableKeys /\ f \in DOMAIN payload
        THEN payload[f] ELSE table[id][f]]]

(* PUT /users/:id with a body that passes updateUserSchema *)
PutUser(header, id, payload) ==
  /\ LET checked == RequireAuth(header)
         route == "PUT /users/:id"
     IN  IF ~checked.next
         THEN /\ http' = <<Exchange(route, header, <<>>, checked.reply)>>
              /\ users' = users
         ELSE IF ~RequireAdmin(checked.auth)
         THEN /\ http' = <<Exchange(route, header, <<checked.auth>>,
                                    Reply(403, [message |-> deniedMsg]))>>
              /\ users' = users
         ELSE IF id \notin DOMAIN users
         THEN /\ http' = <<Exchange(route, header, <<checked.auth>>,
                                    Reply(404, [message |-> notFoundMsg]))>>
              /\ users' = users
         ELSE /\ users' = ApplyPayload(users, id, payload)
              /\ http' = <<Exchange(route, header, <<checked.auth>>,
                                    Reply(200, GetUserById(users', id)))>>
  /\ response' = <<>>
  /\ UNCHANGED <<now, login, attempts, calls, tokens, creating>>

RolePayloads ==
  {[profile |-> "ADMIN"], [profile |-> "USER"],
   [status |-> "ACTIVE"], [status |-> "INACTIVE"]}

(* The clock passes the lifetime of a token, less one minute *)
Sleep ==
  /\ now < JWT_EXPIRES_MINUTES - 1
  /\ now' = now + (JWT_EXPIRES_MINUTES - 1)
  /\ response' = <<>>
  /\ http' = <<>>
  /\ UNCHANGED <<users, login, attempts, calls, tokens, creating>>

(* A user logs in with the password of the account, one call at a time *)
OwnLogin(p, id, password) ==
  /\ BcryptCompare(password, users[id].password_hash)
  /\ SeqCall(p, users[id].email, password)

(* The administrator mistyped the password once before the first login *)
InitAuth ==
  /\ users = [InitialUsers EXCEPT ![1].failed_attempts = 1]
  /\ attempts = [id \in DOMAIN InitialUsers |-> IF id = 1 THEN 1 ELSE 0]
  /\ now = 0
  /\ login = [p \in AllProcs |-> Idle]
  /\ response = <<>>
  /\ calls = 0
  /\ http = <<>>
  /\ tokens = {}
  /\ creating = [c \in Creators |-> <<>>]

AuthNext ==
  \/ \E id \in DOMAIN users, password \in Passwords : OwnLogin(1, id, password)
  \/ \E p \in AllProcs : Gates(p)
  \/ \E p \in AllProcs : Compare(p)
  \/ \E p \in AllProcs : Update(p)
  \/ SetToken
  \/ RemoveToken
  \/ \E header \in Headers : GetMe(header)
  \/ \E header \in Headers, id \in {1, 3}, payload \in RolePayloads :
       PutUser(header, id, payload)
  \/ Tick
  \/ Sleep

SpecAuth == InitAuth /\ [][AuthNext]_vars

----------------------------------------------------------------------------
(* Sequential execution from an account whose counter is at or next to the  *)
(* ceiling of the column and whose last lock has just expired               *)

SaturatedCounters ==
  {FAILED_ATTEMPTS_CAP - 2, FAILED_ATTEMPTS_CAP - 1, FAILED_ATTEMPTS_CAP}

InitSat ==
  /\ \E id \in DOMAIN InitialUsers, n \in SaturatedCounters :
       /\ users = [InitialUsers EXCEPT ![id].failed_attempts = n,
                                       ![id].locked_until = <<0>>]
       /\ attempts = [i \in DOMAIN InitialUsers |-> IF i = id THEN n ELSE 0]
  /\ now = 0
  /\ login = [p \in AllProcs |-> Idle]
  /\ response = <<>>
  /\ calls = 0
  /\ http = <<>>
  /\ tokens = {}
  /\ creating = [c \in Creators |-> <<>>]

SpecSat == InitSat /\ [][SeqNext]_vars

----------------------------------------------------------------------------
(* Concurrent calls whose UPDATE may fail, where every continuation that    *)
(* the event loop holds is run: the resumption after the SELECT, the        *)
(* resolution of bcrypt.compare, and the settlement of the UPDATE, which    *)
(* resolves or rejects                                                      *)

LiveEmails == {"b@x.com", "c@x.com"}

LiveNext ==
  \/ \E p \in Procs, email \in LiveEmails, password \in Passwords :
       Call(p, email, password)
  \/ \E p \in AllProcs : Gates(p)
  \/ \E p \in AllProcs : Compare(p)
  \/ \E p \in AllProcs : Update(p)
  \/ \E p \in AllProcs, err \in StoreErrors : UpdateFails(p, err)
  \/ \E status \in {"ACTIVE", "INACTIVE"} : UpdateUserStatus(2, status)
  \/ Tick

Fairness ==
  \A p \in Procs :
    /\ WF_vars(Gates(p))
    /\ WF_vars(Compare(p))
    /\ WF_vars(Update(p) \/ \E err \in StoreErrors : UpdateFails(p, err))

SpecLive == Init /\ [][LiveNext]_vars /\ Fairness

----------------------------------------------------------------------------
(* createUser of users.service.js: the SELECT that looks for the email, and *)
(* after bcrypt.hash the INSERT.  The columns that the INSERT does not name *)
(* take the defaults of the table, and the table admits one row per email.  *)

conflictMsg == "E-mail já cadastrado."

ColumnDefaults == [failed_attempts |-> 0, locked_until |-> NULL]

InsertId(table) == Cardinality(DOMAIN table) + 1

Insert(table, data) ==
  LET id == InsertId(table)
      row == [id |-> id, name |-> data.name, email |-> data.email,
              password_hash |-> BcryptHash(data.password),
              profile |-> data.profile, status |-> "ACTIVE",
              failed_attempts |-> ColumnDefaults.failed_attempts,
              locked_until |-> ColumnDefaults.locked_until]
  IN  [i \in DOMAIN table \cup {id} |-> IF i = id THEN row ELSE table[i]]

CreateUserSelect(c, data) ==
  /\ creating[c] = <<>>
  /\ IF \E id \in DOMAIN users : users[id].email = data.email
     THEN /\ http' = <<Reply(409, [message |-> conflictMsg])>>
          /\ creating' = creating
     ELSE /\ http' = <<>>
          /\ creating' = [creating EXCEPT ![c] = <<data>>]
  /\ response' = <<>>
  /\ UNCHANGED <<users, now, login, attempts, calls, tokens>>

(* An INSERT that the table rejects throws in the handler of POST /users,   *)
(* which has no catch: the request gets the 500 of the error middleware or  *)
(* no reply at all                                                          *)
CreateUserInsert(c) ==
  /\ creating[c] # <<>>
  /\ LET data == creating[c][1]
         id == InsertId(users)
     IN  IF DuplicateEntry(users, data.email)
         THEN /\ users' = users
              /\ attempts' = attempts
              /\ http' \in {<<>>, <<ErrorMiddleware("ER_DUP_ENTRY")>>}
         ELSE /\ users' = Insert(users, data)
              /\ attempts' = [i \in DOMAIN users' |->
                                IF i = id THEN 0 ELSE attempts[i]]
              /\ http' = <<Reply(201, GetUserById(users', id))>>
  /\ creating' = [creating EXCEPT ![c] = <<>>]
  /\ response' = <<>>
  /\ UNCHANGED <<now, login, calls, tokens>>

CreateInputs ==
  {[name |-> "Caio", email |-> "c@x.com", password |-> "senhaA1",
    profile |-> "USER"],
   [name |-> "Bia", email |-> "b@x.com", password |-> "senhaB2",
    profile |-> "ADMIN"]}

(* Bodies of updateUser: fields it takes, and fields it does not look at *)
CrudPayloads ==
  {[name |-> "Bia B.", profile |-> "ADMIN"],
   [name |-> "Bia", failed_attempts |-> 0, locked_until |-> NULL,
    password_hash |-> BcryptHash("senhaA1")]}

(* Logins one at a time, among the calls of the user operations *)
CrudCall(p, email, password) ==
  /\ AllIdle
  /\ Call(p, email, password)

CrudNext ==
  \/ \E email \in LiveEmails, password \in Passwords :
       CrudCall(1, email, password)
  \/ \E p \in AllProcs : Gates(p)
  \/ \E p \in AllProcs : Compare(p)
  \/ \E p \in AllProcs : Update(p)
  \/ \E c \in Creators, data \in CreateInputs : CreateUserSelect(c, data)
  \/ \E c \in Creators : CreateUserInsert(c)
  \/ \E id \in {2, 3}, payload \in CrudPayloads : UpdateUser(id, payload)
  \/ \E id \in {2, 3}, status \in {"ACTIVE", "INACTIVE"} :
       UpdateUserStatus(id, status)

SpecCrud == Init /\ [][CrudNext]_vars

----------------------------------------------------------------------------
(* The routes of users.routes.js that change users, each behind requireAuth *)
(* and requireAdmin, with bodies that pass their schema                     *)

Refuse(route, header, auth, reply) ==
  /\ http' = <<Exchange(route, header, auth, reply)>>
  /\ response' = <<>>
  /\ UNCHANGED <<users, now, login, attempts, calls, tokens, creating>>

(* POST /users *)
PostUser(header, c, data) ==
  LET checked == RequireAuth(header)
      route == "POST /users"
  IN  IF ~checked.next
      THEN Refuse(route, header, <<>>, checked.reply)
      ELSE IF ~RequireAdmin(checked.auth)
      THEN Refuse(route, header, <<checked.auth>>,
                  Reply(403, [message |-> deniedMsg]))
      ELSE CreateUserSelect(c, data)

PatchUserStatusNoAdmin(header, id, status) ==
  LET checked == RequireAuth(header)
      route == "PATCH /users/:id/status"
  IN  IF ~checked.next
      THEN Refuse(route, header, <<>>, checked.reply)
      ELSE IF id \notin DOMAIN users
      THEN Refuse(route, header, <<checked.auth>>,
                  Reply(404, [message |-> notFoundMsg]))
      ELSE /\ users' = ApplyPayload(users, id, [status |-> status])
           /\ http' = <<Exchange(route, header, <<checked.auth>>,
                                 Reply(200, GetUserById(users', id)))>>
           /\ response' = <<>>
           /\ UNCHANGED <<now, login, attempts, calls, tokens, creating>>

(* PATCH /users/:id/status *)
PatchUserStatus(header, id, status) ==
  LET checked == RequireAuth(header)
      route == "PATCH /users/:id/status"
  IN  IF ~checked.next
      THEN Refuse(route, header, <<>>, checked.reply)
      ELSE IF ~RequireAdmin(checked.auth)
      THEN Refuse(route, header, <<checked.auth>>,
                  Reply(403, [message |-> deniedMsg]))
      ELSE IF id \notin DOMAIN users
      THEN Refuse(route, header, <<checked.auth>>,
                  Reply(404, [message |-> notFoundMsg]))
      ELSE /\ users' = ApplyPayload(users, id, [status |-> status])
           /\ http' = <<Exchange(route, header, <<checked.auth>>,
                                 Reply(200, GetUserById(users', id)))>>
           /\ response' = <<>>
           /\ UNCHANGED <<now, login, attempts, calls, tokens, creating>>

(* The clock passes the lifetime of a token *)
Outlast ==
  /\ now < JWT_EXPIRES_MINUTES
  /\ now' = now + JWT_EXPIRES_MINUTES
  /\ response' = <<>>
  /\ http' = <<>>
  /\ UNCHANGED <<users, login, attempts, calls, tokens, creating>>

(* What the client of these routes sends: no header, the token it keeps,   *)
(* that token with the profile changed to ADMIN, a token of its own making *)
AdminHeaders ==
  {NoHeader}
    \cup {[prefix |-> "Bearer ", rest |-> token] :
            token \in tokens \cup {[t EXCEPT !.profile = "ADMIN"] : t \in tokens}
                        \cup {ForgedToken}}

AdminPayloads == {[profile |-> "ADMIN"], [name |-> "Bia B."]}

Statuses == {"ACTIVE", "INACTIVE"}

AdminNext ==
  \/ \E id \in DOMAIN users, password \in Passwords : OwnLogin(1, id, password)
  \/ \E p \in AllProcs : Gates(p)
  \/ \E p \in AllProcs : Compare(p)
  \/ \E p \in AllProcs : Update(p)
  \/ SetToken
  \/ \E header \in AdminHeaders, data \in CreateInputs :
       PostUser(header, 1, data)
  \/ \E c \in Creators : CreateUserInsert(c)
  \/ \E header \in AdminHeaders, payload \in AdminPayloads :
       PutUser(header, 2, payload)
  \/ \E header \in AdminHeaders, status \in Statuses :
       PatchUserStatus(header, 3, status)
  \/ Outlast

SpecAdmin == InitAuth /\ [][AdminNext]_vars

----------------------------------------------------------------------------
(* createUser and updateUser on the emails of the table: creations that run *)
(* at the same time, and updates that move an account to another email      *)

EmailPayloads ==
  {[email |-> "a@x.com"], [email |-> "b@x.com"],
   [name |-> "Caio C.", email |-> "c@x.com"]}

EmailNext ==
  \/ \E c \in Creators, data \in CreateInputs : CreateUserSelect(c, data)
  \/ \E c \in Creators : CreateUserInsert(c)
  \/ \E id \in {1, 2, 3}, payload \in EmailPayloads : UpdateUser(id, payload)

SpecEmail == Init /\ [][EmailNext]_vars

----------------------------------------------------------------------------
(* Vocabulary of the properties *)

Responded == Len(response) = 1

Found(r) == Len(r.rows) = 1

Matches(r) == r.rows[1].password_hash = BcryptHash(r.password)

LockedAt(row, t) == row.locked_until # NULL /\ row.locked_until[1] > t

StepOf(p) == login'[p] # login[p]

(* The reply h answers a request on a protected route *)
Protected(h) == "route" \in DOMAIN h

(* The header carries, as a Bearer token, a token that a login issued *)
BearsIssued(header) ==
  /\ header # NoHeader
  /\ header.prefix = "Bearer "
  /\ header.rest \in tokens

(* The step is the UPDATE of call p, issued for the row id that p read *)
WriterOf(p, id) ==
  /\ login[p].pc = "update"
  /\ login'[p].pc = "idle"
  /\ login[p].update.id = id
  /\ login[p].rows[1].id = id

----------------------------------------------------------------------------
(* C1: in a sequential execution, once MAX_LOGIN_ATTEMPTS consecutive      *)
(* wrong-password attempts have been made against an ACTIVE account that   *)
(* started with no failures and no lock, the lock is stored, the MAX-th    *)
(* attempt is answered 423, and every call for that account that returns   *)
(* while the time is before the stored lock expiry is answered 423, the    *)
(* correct password included.                                              *)
C1_LockAfterMaxFailures ==
  /\ \A id \in DOMAIN users :
       AllIdle /\ attempts[id] >= MAX => users[id].locked_until # NULL
  /\ Responded /\ Found(response[1]) /\ response[1].rows[1].status = "ACTIVE" =>
       LET r == response[1]
           id == r.rows[1].id
       IN  /\ r.passOk = <<FALSE>> /\ attempts[id] = MAX =>
                /\ r.result.statusCode = 423
                /\ users[id].locked_until = r.update.set.locked_until
                /\ users[id].locked_until[1] <= r.at + LOCK_MINUTES
           /\ LockedAt(users[id], r.at) => r.result.statusCode = 423

C1_Witness ==
  /\ Responded /\ Found(response[1])
  /\ LET r == response[1]
         id == r.rows[1].id
     IN  /\ r.rows[1].status = "ACTIVE"
         /\ Matches(r)
         /\ attempts[id] = MAX
         /\ LockedAt(users[id], r.at)
         /\ r.result = Failure(423, lockedMsg)

(* C2: after a burst of wrong-password calls against one account has       *)
(* completed, the stored failed_attempts equals the number of              *)
(* wrong-password attempts made against it, capped at 255.                 *)
C2_NoLostIncrement ==
  \A id \in DOMAIN users :
    AllIdle => users[id].failed_attempts = Min(attempts[id], FAILED_ATTEMPTS_CAP)

(* C3: after a burst of at least MAX_LOGIN_ATTEMPTS wrong-password calls    *)
(* against one account has completed, the account carries a lock.          *)
C3_BurstLocks ==
  \A id \in DOMAIN users :
    AllIdle /\ attempts[id] >= MAX => users[id].locked_until # NULL

(* C4 as stated: every wrong-password call for an existing ACTIVE account   *)
(* is answered exactly like a call for an unknown email, with 401 and       *)
(* "Credenciais inválidas.".                                                *)
C4_WrongPasswordAlways401 ==
  Responded /\ Found(response[1]) =>
    LET r == response[1]
    IN  r.rows[1].status = "ACTIVE" /\ ~Matches(r) =>
          r.result = Failure(401, invalidMsg)

(* C4 amended: a call for an unknown email, and a wrong-password call for   *)
(* an existing ACTIVE account that is not locked and whose incremented      *)
(* counter stays below MAX_LOGIN_ATTEMPTS, are answered with the same       *)
(* status and the same message, 401 and "Credenciais inválidas.".           *)
C4_SameInvalidResponse ==
  Responded =>
    LET r == response[1]
    IN  /\ ~Found(r) => r.result = Failure(401, invalidMsg)
        /\ (/\ Found(r)
            /\ r.rows[1].status = "ACTIVE"
            /\ ~Matches(r)
            /\ ~LockedAt(r.rows[1], r.at)
            /\ r.rows[1].failed_attempts + 1 < MAX)
           => r.result = Failure(401, invalidMsg)

C4_Witness ==
  /\ Responded /\ Found(response[1])
  /\ LET r == response[1]
     IN  /\ r.rows[1].status = "ACTIVE"
         /\ ~Matches(r)
         /\ r.rows[1].failed_attempts + 1 < MAX
         /\ r.result = Failure(401, invalidMsg)
         /\ r.result = GateResult(Gate(<<>>, r.at))

(* C5: every step of a login call whose row is not ACTIVE leaves the users  *)
(* table unchanged and returns 403, whatever the password and the lock are, *)
(* without verifying the password.                                          *)
C5_InactiveRejected ==
  [][\A p \in AllProcs :
       (/\ StepOf(p)
        /\ login[p].pc # "idle"
        /\ Found(login[p])
        /\ login[p].rows[1].status # "ACTIVE")
       => /\ users' = users
          /\ login'[p].pc = "idle"
          /\ Len(response') = 1
          /\ response'[1].result = Failure(403, inactiveMsg)
          /\ response'[1].passOk = <<>>]_vars

C5_Witness ==
  /\ Responded /\ Found(response[1])
  /\ LET r == response[1]
         id == r.rows[1].id
     IN  /\ r.rows[1].status = "INACTIVE"
         /\ Matches(r)
         /\ LockedAt(r.rows[1], r.at)
         /\ r.result = Failure(403, inactiveMsg)
         /\ users[id].failed_attempts = r.rows[1].failed_attempts
         /\ users[id].locked_until = r.rows[1].locked_until

(* C6: the gates step of a login call whose ACTIVE row carries a            *)
(* locked_until later than the current time returns 423 at once, without    *)
(* verifying the password and without changing the users table.             *)
C6_LockedShortCircuits ==
  [][\A p \in AllProcs :
       (/\ StepOf(p)
        /\ login[p].pc = "gates"
        /\ Found(login[p])
        /\ login[p].rows[1].status = "ACTIVE"
        /\ LockedAt(login[p].rows[1], now))
       => /\ users' = users
          /\ login'[p].pc = "idle"
          /\ Len(response') = 1
          /\ response'[1].result = Failure(423, lockedMsg)
          /\ response'[1].passOk = <<>>
          /\ response'[1].update = NoUpdate]_vars

C6_Witness ==
  /\ Responded /\ Found(response[1])
  /\ LET r == response[1]
         id == r.rows[1].id
     IN  /\ r.rows[1].status = "ACTIVE"
         /\ LockedAt(r.rows[1], r.at)
         /\ r.result = Failure(423, lockedMsg)
         /\ r.passOk = <<>>
         /\ users[id].failed_attempts = r.rows[1].failed_attempts
         /\ users[id].locked_until = r.rows[1].locked_until
         /\ users[id].failed_attempts >= MAX

(* C7: in a sequential execution a correct-password login that passes the   *)
(* gates, the one made after the lock expired included, returns Success and *)
(* leaves failed_attempts = 0 and locked_until NULL; counted from there,    *)
(* wrong-password attempts 1 .. MAX_LOGIN_ATTEMPTS-1 return 401 and leave   *)
(* the account unlocked, and the MAX_LOGIN_ATTEMPTS-th returns 423 and      *)
(* stores the lock.                                                         *)
C7_ResetThenFreshSequence ==
  Responded /\ Found(response[1]) /\ response[1].passOk # <<>> =>
    LET r == response[1]
        id == r.rows[1].id
    IN  /\ r.passOk = <<TRUE>> =>
             /\ r.result.ok
             /\ users[id].failed_attempts = 0
             /\ users[id].locked_until = NULL
             /\ attempts[id] = 0
        /\ r.passOk = <<FALSE>> =>
             /\ users[id].failed_attempts = Min(attempts[id], FAILED_ATTEMPTS_CAP)
             /\ attempts[id] < MAX =>
                  /\ r.result = Failure(401, invalidMsg)
                  /\ users[id].locked_until = NULL
             /\ attempts[id] >= MAX =>
                  /\ r.result = Failure(423, justLockedMsg)
                  /\ users[id].locked_until # NULL
                  /\ users[id].locked_until = r.update.set.locked_until

C7_Witness ==
  /\ Responded /\ Found(response[1])
  /\ LET r == response[1]
         id == r.rows[1].id
     IN  /\ r.result.ok
         /\ r.rows[1].failed_attempts >= MAX
         /\ r.rows[1].locked_until # NULL
         /\ r.rows[1].locked_until[1] < r.at
         /\ users[id].failed_attempts = 0
         /\ users[id].locked_until = NULL

(* C8: the gates step of a login call for an ACTIVE row goes on to password *)
(* verification exactly when locked_until is NULL or not later than the     *)
(* current time, equality included, and returns the 423 of the lock gate    *)
(* exactly when locked_until is later than the current time.                *)
C8_StrictLockTest ==
  [][\A p \in AllProcs :
       (/\ StepOf(p)
        /\ login[p].pc = "gates"
        /\ Found(login[p])
        /\ login[p].rows[1].status = "ACTIVE")
       => LET lockedUntil == login[p].rows[1].locked_until
              locked == lockedUntil # NULL /\ lockedUntil[1] > now
          IN  /\ login'[p].pc = "compare" <=> ~locked
              /\ login'[p].pc = "idle" <=> locked
              /\ locked =>
                   Len(response') = 1 /\ response'[1].result = Failure(423, lockedMsg)]_vars

C8_Witness ==
  \E p \in AllProcs :
    /\ login[p].pc = "compare"
    /\ login[p].rows[1].locked_until = <<now>>

(* C9: a login call returns Success exactly when the row it read exists,    *)
(* is ACTIVE, is not locked and the password matches its hash; the token    *)
(* then carries sub = the id as a string and the profile of that row, and   *)
(* the user returned holds id, name, email and profile and nothing else.    *)
C9_SuccessIff ==
  Responded =>
    LET r == response[1]
    IN  /\ r.result.ok <=>
             (/\ Found(r)
              /\ r.rows[1].status = "ACTIVE"
              /\ ~LockedAt(r.rows[1], r.at)
              /\ Matches(r))
        /\ r.result.ok =>
             /\ r.result.statusCode = 200
             /\ r.result.data.token.sub = ToString(r.rows[1].id)
             /\ r.result.data.token.profile = r.rows[1].profile
             /\ r.result.data.user =
                  [id |-> r.rows[1].id, name |-> r.rows[1].name,
                   email |-> r.rows[1].email, profile |-> r.rows[1].profile]
             /\ "password_hash" \notin DOMAIN r.result.data.user

C9_Witness ==
  /\ Responded
  /\ response[1].result.ok
  /\ response[1].result.data.token.sub = "2"
  /\ response[1].result.data.token.profile = "USER"
  /\ response[1].result.data.user.email = "b@x.com"

(* C10: failed_attempts of an account grows only in the write of a          *)
(* wrong-password call that read the account ACTIVE and not locked, becomes *)
(* 0 only in the write of a successful call, which sets locked_until to     *)
(* NULL with it, and changes in no other step.                              *)
C10_CounterDiscipline ==
  [][\A id \in DOMAIN users :
       LET before == users[id].failed_attempts
           after == users'[id].failed_attempts
       IN  /\ after # before => \E p \in AllProcs : WriterOf(p, id)
           /\ after > before =>
                \E p \in AllProcs :
                  /\ WriterOf(p, id)
                  /\ login[p].passOk = <<FALSE>>
                  /\ login[p].rows[1].status = "ACTIVE"
                  /\ ~LockedAt(login[p].rows[1], now)
           /\ (after # before /\ after = 0) =>
                /\ users'[id].locked_until = NULL
                /\ \E p \in AllProcs :
                     /\ WriterOf(p, id)
                     /\ login[p].passOk = <<TRUE>>
                     /\ response'[1].result.ok]_vars

C10_Witness ==
  /\ Responded /\ Found(response[1])
  /\ LET r == response[1]
         id == r.rows[1].id
     IN  /\ r.update.kind = "reset"
         /\ r.rows[1].failed_attempts > 0
         /\ r.rows[1].locked_until = NULL
         /\ r.result.ok
         /\ users[id].failed_attempts = 0

(* C11: the step of a login call that follows password verification         *)
(* prepares the UPDATE that sets locked_until exactly when the password is  *)
(* wrong and min(failed_attempts + 1, 255) of the row read is at least      *)
(* MAX_LOGIN_ATTEMPTS, and then locked_until is the current time plus       *)
(* LOCK_MINUTES; below the threshold the UPDATE sets failed_attempts alone. *)
(* A stored locked_until takes a non-NULL value only in the write of such a *)
(* locking UPDATE, and a counter-only UPDATE leaves locked_until as it was. *)
C11_LockIffThreshold ==
  [][/\ \A p \in AllProcs :
          (StepOf(p) /\ login[p].pc = "compare") =>
            LET user == login[p].rows[1]
                wrong == user.password_hash # BcryptHash(login[p].password)
                reached ==
                  Min(user.failed_attempts + 1, FAILED_ATTEMPTS_CAP) >= MAX
                w == login'[p].update
            IN  /\ (w.kind = "lock") <=> (wrong /\ reached)
                /\ (wrong /\ reached) =>
                     /\ login'[p].pc = "update"
                     /\ w.set.locked_until = <<now + LOCK_MINUTES>>
                     /\ w.id = user.id
                /\ (wrong /\ ~reached) =>
                     /\ login'[p].pc = "update"
                     /\ w.kind = "count"
                     /\ DOMAIN w.set = {"failed_attempts"}
                     /\ w.set.failed_attempts = user.failed_attempts + 1
     /\ \A id \in DOMAIN users :
          /\ (users'[id].locked_until # users[id].locked_until
              /\ users'[id].locked_until # NULL) =>
               \E p \in AllProcs :
                 /\ WriterOf(p, id)
                 /\ login[p].update.kind = "lock"
                 /\ login[p].passOk = <<FALSE>>
                 /\ users'[id].locked_until = login[p].update.set.locked_until
          /\ (\E p \in AllProcs :
                WriterOf(p, id) /\ login[p].update.kind = "count") =>
               users'[id].locked_until = users[id].locked_until]_vars

C11_Witness ==
  /\ Responded /\ Found(response[1])
  /\ LET r == response[1]
         id == r.rows[1].id
     IN  /\ r.update.kind = "lock"
         /\ r.rows[1].failed_attempts = MAX - 1
         /\ r.rows[1].locked_until = NULL
         /\ users[id].locked_until = <<r.at + LOCK_MINUTES>>
         /\ users[id].failed_attempts = MAX

(* C12: in every state the stored failed_attempts of every account is an    *)
(* integer in 0 .. 255, and the write of a wrong-password call leaves a     *)
(* counter that is already 255 at 255 and raises any other counter by       *)
(* exactly 1.                                                               *)
C12_Saturation ==
  /\ [](\A id \in DOMAIN users :
          users[id].failed_attempts \in 0..FAILED_ATTEMPTS_CAP)
  /\ [][\A id \in DOMAIN users, p \in AllProcs :
          (WriterOf(p, id) /\ login[p].passOk = <<FALSE>>) =>
            users'[id].failed_attempts =
              IF users[id].failed_attempts = FAILED_ATTEMPTS_CAP
              THEN FAILED_ATTEMPTS_CAP
              ELSE users[id].failed_attempts + 1]_vars

C12_Witness ==
  /\ Responded /\ Found(response[1])
  /\ LET r == response[1]
         id == r.rows[1].id
     IN  /\ r.passOk = <<FALSE>>
         /\ r.rows[1].failed_attempts = FAILED_ATTEMPTS_CAP
         /\ r.update.set.failed_attempts = FAILED_ATTEMPTS_CAP
         /\ users[id].failed_attempts = FAILED_ATTEMPTS_CAP

(* C13: a wrong-password call whose write engages the lock returns 423 with *)
(* a message other than the one of the lock gate, a wrong-password call     *)
(* whose write does not engage the lock returns 401, and whenever a         *)
(* wrong-password call returns 401 the account is unlocked once the call    *)
(* has written.                                                             *)
C13_LockingFailureIs423 ==
  (Responded /\ Found(response[1]) /\ response[1].passOk = <<FALSE>>) =>
    LET r == response[1]
        id == r.rows[1].id
    IN  /\ r.update.kind = "lock" =>
             /\ r.result.statusCode = 423
             /\ r.result.message # GateResult("locked").message
        /\ r.update.kind = "count" => r.result.statusCode = 401
        /\ r.result.statusCode = 401 => ~LockedAt(users[id], r.at)

(* C14: the UPDATE of a wrong-password call takes effect only if the stored *)
(* failed_attempts still equals the value the call read; a call whose       *)
(* condition fails leaves the row as it is in that step and never returns   *)
(* Success.                                                                 *)
C14_ConditionalUpdate ==
  [][\A id \in DOMAIN users, p \in AllProcs :
       (/\ WriterOf(p, id)
        /\ login[p].passOk = <<FALSE>>
        /\ users[id].failed_attempts # login[p].rows[1].failed_attempts)
       => /\ users'[id] = users[id]
          /\ ~response'[1].result.ok]_vars

(* C15: a reply sent for a failure of the store has status 500 and the body *)
(* {message: "Erro interno."} whatever the error was, comes with no result  *)
(* of loginWithLock, carries no token, and leaves no call in progress       *)
(* (nothing is retried); a reply with status 401, 403 or 423 is always the  *)
(* status and message of a result that loginWithLock returned, and a reply  *)
(* with a token is always that of a returned Success.                       *)
C15_StoreFailureIs500 ==
  http # <<>> =>
    LET h == http[1]
    IN  /\ h.logged # <<>> =>
             /\ h.status = 500
             /\ h.json = [message |-> internalErrorMsg]
             /\ ~Responded
             /\ AllIdle
        /\ h.status \in {401, 403, 423} =>
             /\ h.logged = <<>>
             /\ Responded
             /\ ~response[1].result.ok
             /\ response[1].result.statusCode = h.status
             /\ h.json = [message |-> response[1].result.message]
        /\ "token" \in DOMAIN h.json =>
             /\ h.logged = <<>>
             /\ h.status = 200
             /\ Responded
             /\ response[1].result.ok

C15_Witness ==
  /\ http # <<>>
  /\ http[1].logged = <<"ER_LOCK_WAIT_TIMEOUT">>
  /\ http[1].status = 500
  /\ calls = 1
  /\ users[2].failed_attempts = 1

(* C16: every request on a protected route reaches the handler, with        *)
(* req.auth = {userId: sub, profile} of its token, exactly when its         *)
(* Authorization header is "Bearer " followed by a token that a login       *)
(* issued and that has not expired; any other request (no header, another   *)
(* scheme, a changed claim, another key, no token at all, an expired        *)
(* token) is answered 401 and changes nothing.                              *)
C16_RequireAuthGuards ==
  [][(http' # <<>> /\ Protected(http'[1])) =>
       LET h == http'[1]
           valid == BearsIssued(h.header) /\ now < h.header.rest.exp
       IN  /\ (h.auth # <<>>) <=> valid
           /\ valid =>
                /\ h.auth = <<[userId |-> h.header.rest.sub,
                               profile |-> h.header.rest.profile]>>
                /\ h.status # 401
                /\ h.route = "GET /me" =>
                     /\ h.status = 200
                     /\ h.json = [ok |-> TRUE, auth |-> h.auth[1]]
           /\ ~valid =>
                /\ h.status = 401
                /\ h.json.message \in {missingTokenMsg, invalidTokenMsg}
                /\ users' = users]_vars

C16_Witness ==
  /\ http # <<>> /\ Protected(http[1])
  /\ LET h == http[1]
     IN  /\ h.route = "GET /me"
         /\ BearsIssued(h.header)
         /\ h.status = 200
         /\ h.json.auth = [userId |-> "2", profile |-> "USER"]

(* C17: a token that a login returns at time t carries iat = t and          *)
(* exp = t + the configured lifetime; presented as a Bearer token at time   *)
(* u it is accepted when u < t + lifetime and answered 401 when             *)
(* u >= t + lifetime.                                                       *)
C17_TokenWindow ==
  /\ (Responded /\ response[1].result.ok) =>
       /\ response[1].result.data.token.iat = response[1].at
       /\ response[1].result.data.token.exp =
            response[1].at + JWT_EXPIRES_MINUTES
  /\ (http # <<>> /\ Protected(http[1]) /\ BearsIssued(http[1].header)) =>
       LET h == http[1]
           t == h.header.rest.iat
       IN  /\ t <= h.at
           /\ h.at < t + JWT_EXPIRES_MINUTES =>
                h.auth # <<>> /\ h.status # 401
           /\ h.at >= t + JWT_EXPIRES_MINUTES =>
                h.auth = <<>> /\ h.status = 401

C17_Witness ==
  /\ http # <<>> /\ Protected(http[1]) /\ BearsIssued(http[1].header)
  /\ http[1].at = http[1].header.rest.iat + JWT_EXPIRES_MINUTES
  /\ http[1].status = 401
  /\ http[1].json = [message |-> invalidTokenMsg]

(* C18: a token that a login issued and that has not expired is accepted    *)
(* with the profile it was issued with, whatever the profile and the status *)
(* of its account are by then, and the ADMIN test of PUT /users/:id is made *)
(* on that profile: the request is refused with 403 exactly when the        *)
(* profile in the token is not ADMIN.                                       *)
C18_TokenRoleIsFixed ==
  (/\ http # <<>> /\ Protected(http[1])
   /\ BearsIssued(http[1].header)
   /\ http[1].at < http[1].header.rest.exp) =>
    LET h == http[1]
        token == h.header.rest
    IN  /\ h.auth = <<[userId |-> token.sub, profile |-> token.profile]>>
        /\ h.route = "PUT /users/:id" =>
             /\ (h.status = 403) <=> (token.profile # "ADMIN")
             /\ token.profile = "ADMIN" => h.status \in {200, 404}

C18_Witness ==
  /\ http # <<>> /\ Protected(http[1]) /\ BearsIssued(http[1].header)
  /\ LET h == http[1]
     IN  /\ h.route = "PUT /users/:id"
         /\ h.status = 200
         /\ h.auth = <<[userId |-> "1", profile |-> "ADMIN"]>>
         /\ h.json.id = 1
         /\ h.json.profile = "USER"
         /\ h.json.status = "INACTIVE"
         /\ users[1].profile = "USER"
         /\ users[1].status = "INACTIVE"

(* The bodies that fail validation, as the claim words them *)
InvalidBodies ==
  {body \in Bodies :
     \/ body.email.type # "string"
     \/ ~IsEmail(ToLowerCase(Trim(body.email.chars)))
     \/ body.password.type # "string"
     \/ Len(body.password.chars) < 6
     \/ Len(body.password.chars) > 100}

(* C19: a POST /login whose body fails validation (email not a string or    *)
(* not an address once trimmed and put in lower case, password not a string *)
(* or shorter than 6 or longer than 100 characters) is answered 400 in the  *)
(* step that receives it; no call of loginWithLock starts or returns in     *)
(* that step and the users table stays as it is.                            *)
C19_InvalidBodyIs400 ==
  [][\A p \in Procs, body \in InvalidBodies :
       SeqPostLogin(p, body)
       => /\ http' = <<Reply(400, [message |-> invalidDataMsg])>>
          /\ login' = login
          /\ response' = <<>>
          /\ users' = users]_vars

C19_Witness ==
  /\ http = <<Reply(400, [message |-> invalidDataMsg])>>
  /\ calls = MAX + 1
  /\ users[2].failed_attempts = MAX
  /\ users[2].locked_until # NULL
  /\ AllIdle

(* C20: a login call reads the store once, in its first step, and writes it *)
(* at most once, in its last step: it moves idle, gates, compare, update,   *)
(* idle without going back, takes its row only when it starts and changes   *)
(* the users table only when it leaves update.  It returns without a write  *)
(* exactly for an unknown email, an inactive account, a locked account, and *)
(* a correct password on a row with failed_attempts = 0 and no              *)
(* locked_until; a wrong password that passed the gates returns after one   *)
(* counting or locking UPDATE, and a correct password on a row with a       *)
(* nonzero counter or a locked_until returns after one reset UPDATE.        *)
C20_OneReadAtMostOneWrite ==
  /\ [][\A p \in AllProcs :
          StepOf(p) =>
            /\ <<login[p].pc, login'[p].pc>> \in
                 {<<"idle", "gates">>, <<"gates", "idle">>,
                  <<"gates", "compare">>, <<"compare", "idle">>,
                  <<"compare", "update">>, <<"update", "idle">>}
            /\ login[p].pc # "idle" /\ login'[p].pc # "idle" =>
                 login'[p].rows = login[p].rows
            /\ login[p].pc # "update" => users' = users]_vars
  /\ [](Responded =>
         LET r == response[1]
             clean == /\ r.rows[1].failed_attempts = 0
                      /\ r.rows[1].locked_until = NULL
             gated == \/ ~Found(r)
                      \/ r.rows[1].status # "ACTIVE"
                      \/ LockedAt(r.rows[1], r.at)
         IN  /\ (r.update.kind = "none") <=>
                  (gated \/ (Matches(r) /\ clean))
             /\ (~gated /\ ~Matches(r)) => r.update.kind \in {"count", "lock"}
             /\ (~gated /\ Matches(r) /\ ~clean) => r.update.kind = "reset")

C20_Witness ==
  /\ Responded /\ Found(response[1])
  /\ LET r == response[1]
         id == r.rows[1].id
     IN  /\ r.result.ok
         /\ r.update = NoUpdate
         /\ r.rows[1].failed_attempts = 0
         /\ r.rows[1].locked_until = NULL
         /\ users[id] = r.rows[1]
         /\ calls > 1

(* C21: a call that verifies a correct password for an ACTIVE account on a  *)
(* row with failed_attempts = 0 and no locked_until returns 200 in that     *)
(* step and the users table stays as it is; a reset UPDATE is issued only   *)
(* for a row read with a nonzero counter or with a locked_until, and it is  *)
(* issued when the correct password meets a locked_until that has expired.  *)
C21_CleanSuccessWritesNothing ==
  /\ [][\A p \in AllProcs :
          (/\ login[p].pc = "compare"
           /\ StepOf(p)
           /\ login[p].rows[1].status = "ACTIVE"
           /\ login[p].rows[1].password_hash = BcryptHash(login[p].password)
           /\ login[p].rows[1].failed_attempts = 0
           /\ login[p].rows[1].locked_until = NULL)
          => /\ users' = users
             /\ login'[p].pc = "idle"
             /\ response' # <<>>
             /\ response'[1].result.ok
             /\ response'[1].result.statusCode = 200
             /\ response'[1].update = NoUpdate]_vars
  /\ [](Responded =>
         LET r == response[1]
         IN  /\ r.update.kind = "reset" =>
                  \/ r.rows[1].failed_attempts # 0
                  \/ r.rows[1].locked_until # NULL
             /\ (/\ Found(r) /\ Matches(r) /\ r.result.ok
                 /\ r.rows[1].locked_until # NULL) =>
                  r.update = ResetUpdate(r.rows[1].id))

C21_Witness ==
  /\ Responded /\ Found(response[1])
  /\ LET r == response[1]
     IN  /\ r.result.ok
         /\ r.update = NoUpdate
         /\ r.rows[1].id = 2
         /\ users[2] = InitialUsers[2]
         /\ \E q \in Procs :
              /\ login[q].pc = "update"
              /\ login[q].update = ResetUpdate(1)
              /\ login[q].rows[1].failed_attempts = 1
              /\ users[1].failed_attempts = 1

(* C22: a call that finds a wrong password, or a correct password on a row  *)
(* that needs the reset, does not return in that step: it goes on to its    *)
(* UPDATE with the table untouched.  A step in which a call returns leaves  *)
(* the call with nothing in progress, and if the call issued an UPDATE, the *)
(* step is the one that executes it: the row holds the values of its SET    *)
(* clause when the result is there.                                         *)
C22_WriteBeforeReturn ==
  [][\A p \in AllProcs :
       StepOf(p) =>
         /\ (/\ login[p].pc = "compare"
             /\ \/ login[p].rows[1].password_hash # BcryptHash(login[p].password)
                \/ login[p].rows[1].failed_attempts > 0
                \/ login[p].rows[1].locked_until # NULL)
            => /\ response' = <<>>
               /\ login'[p].pc = "update"
               /\ login'[p].update.kind # "none"
               /\ users' = users
         /\ response' # <<>> =>
              LET w == response'[1].update
              IN  /\ login'[p] = Idle
                  /\ w.kind # "none" =>
                       /\ login[p].pc = "update"
                       /\ login[p].update = w
                       /\ \A f \in DOMAIN w.set : users'[w.id][f] = w.set[f]]_vars

C22_Witness ==
  /\ Responded
  /\ LET r == response[1]
     IN  /\ r.passOk = <<TRUE>>
         /\ r.update = ResetUpdate(2)
         /\ r.rows[1].failed_attempts = MAX - 1
         /\ users[2].failed_attempts = 0
         /\ \E q \in Procs :
              /\ login[q].pc = "update"
              /\ login[q].update = LockUpdate(MAX, <<now + LOCK_MINUTES>>, 2)

(* The columns of users that no statement of loginWithLock names in a SET *)
LoginFrame == {"id", "name", "email", "password_hash", "profile", "status"}

(* C23: a step of a login call leaves the id, name, email, password_hash,   *)
(* profile and status of every account as they were and adds or removes no  *)
(* account: of an account it can change failed_attempts and locked_until    *)
(* only, so a step that changes the status of an account is never a step of *)
(* a login call.                                                            *)
C23_LoginWritesCountersOnly ==
  [][/\ (\E p \in AllProcs : StepOf(p)) =>
          /\ DOMAIN users' = DOMAIN users
          /\ \A id \in DOMAIN users, f \in LoginFrame :
               users'[id][f] = users[id][f]
     /\ \A id \in DOMAIN users :
          users'[id].status # users[id].status =>
            \A p \in AllProcs : ~StepOf(p)]_vars

C23_Witness ==
  /\ Responded /\ Found(response[1])
  /\ LET r == response[1]
     IN  /\ r.update.kind = "lock"
         /\ r.rows[1].id = 1
         /\ users[1] = [InitialUsers[1] EXCEPT
                          !.failed_attempts = MAX,
                          !.locked_until = <<r.at + LOCK_MINUTES>>]
         /\ users[2].status = "INACTIVE"

(* C24: a login call takes, when it starts, the row whose email is the one  *)
(* it was given and nothing else, and from then on each of its steps leaves *)
(* every other account as it is: its UPDATE is addressed to the id of the   *)
(* row it read.  The status it returns, and the account its token names,    *)
(* follow from that row, the password given and the time alone, whatever    *)
(* the other accounts hold and whatever calls run for them.                 *)
C24_AccountsIndependent ==
  /\ [][\A p \in AllProcs :
          StepOf(p) =>
            /\ login[p].pc = "idle" =>
                 /\ users' = users
                 /\ IF \E id \in DOMAIN users : users[id].email = login'[p].email
                    THEN \E id \in DOMAIN users :
                           /\ users[id].email = login'[p].email
                           /\ login'[p].rows = <<users[id]>>
                    ELSE login'[p].rows = <<>>
            /\ login[p].pc # "idle" =>
                 \A b \in DOMAIN users :
                   (Len(login[p].rows) = 0 \/ b # login[p].rows[1].id) =>
                     users'[b] = users[b]
            /\ login'[p].pc = "update" =>
                 login'[p].update.id = login'[p].rows[1].id]_vars
  /\ [](Responded =>
         LET r == response[1]
             status == r.result.statusCode
         IN  IF ~Found(r) THEN status = 401
             ELSE IF r.rows[1].status # "ACTIVE" THEN status = 403
             ELSE IF LockedAt(r.rows[1], r.at) THEN status = 423
             ELSE IF ~Matches(r)
             THEN status = IF r.rows[1].failed_attempts + 1 >= MAX
                           THEN 423 ELSE 401
             ELSE /\ status = 200
                  /\ r.result.data.user.id = r.rows[1].id
                  /\ r.result.data.token.sub = ToString(r.rows[1].id))

C24_Witness ==
  /\ Responded /\ Found(response[1])
  /\ LET r == response[1]
     IN  /\ r.rows[1].id = 1
         /\ r.update = CountUpdate(1, 1)
         /\ users[1].failed_attempts = 1
         /\ users[2].failed_attempts = MAX - 1
         /\ users[2].locked_until = NULL
         /\ \E q \in Procs :
              /\ login[q].pc = "update"
              /\ login[q].update.kind = "lock"
              /\ login[q].update.id = 2

(* C25: every login call that has started finishes, whatever the other      *)
(* calls do: each of its continuations can run as soon as the call has      *)
(* reached it, with no regard to any other call, and the step in which it   *)
(* finishes gives exactly one outcome, either one result (200, 401, 403 or  *)
(* 423) or the 500 of a failure of the store and no result.                 *)
C25_EveryCallFinishes ==
  /\ \A p \in Procs : (login[p].pc # "idle") ~> (login[p].pc = "idle")
  /\ [](\A p \in Procs :
          /\ login[p].pc = "gates" => ENABLED Gates(p)
          /\ login[p].pc = "compare" => ENABLED Compare(p)
          /\ login[p].pc = "update" => ENABLED Update(p))
  /\ [][\A p \in Procs :
          (StepOf(p) /\ login'[p].pc = "idle") =>
            /\ Len(http') = 1
            /\ IF response' # <<>>
               THEN /\ Len(response') = 1
                    /\ response'[1].result.statusCode \in {200, 401, 403, 423}
                    /\ http'[1].status = response'[1].result.statusCode
                    /\ http'[1].logged = <<>>
               ELSE /\ http'[1].status = 500
                    /\ http'[1].logged # <<>>]_vars

C25_Witness ==
  /\ calls = MaxCalls
  /\ AllIdle
  /\ Responded
  /\ response[1].result = Failure(423, lockedMsg)
  /\ users[2].failed_attempts = MAX
  /\ attempts[2] = MAX

(* C26: while an account holds a locked_until in the future, no step of a   *)
(* login call clears its locked_until or sets its failed_attempts to 0.     *)
C26_LockSurvivesReset ==
  [][\A id \in DOMAIN users, p \in AllProcs :
       (LockedAt(users[id], now) /\ StepOf(p)) =>
         /\ users'[id].locked_until # NULL
         /\ users'[id].failed_attempts # 0]_vars

(* C27: no call returns Success while the row of its account holds a        *)
(* locked_until in the future.                                              *)
C27_NoSuccessWhileLocked ==
  (Responded /\ response[1].result.ok) =>
    ~LockedAt(users[response[1].rows[1].id], response[1].at)

(* C28: in every state an account whose locked_until is present has         *)
(* failed_attempts >= MAX_LOGIN_ATTEMPTS.                                   *)
C28_LockImpliesThreshold ==
  \A id \in DOMAIN users :
    users[id].locked_until # NULL => users[id].failed_attempts >= MAX

LoginColumns == {"failed_attempts", "locked_until", "password_hash"}

(* C30: a step of createUser, updateUser or updateUserStatus removes no     *)
(* account and leaves the failed_attempts, locked_until and password_hash   *)
(* of every existing account as they were, whatever its body holds, so an   *)
(* account that is deactivated and reactivated keeps its counter and its    *)
(* lock; a step that changes one of these columns of an existing account is *)
(* the UPDATE of a login call.                                              *)
C30_CrudKeepsLoginColumns ==
  [][/\ DOMAIN users \subseteq DOMAIN users'
     /\ (\A p \in AllProcs : ~StepOf(p)) =>
          \A id \in DOMAIN users, f \in LoginColumns :
            users'[id][f] = users[id][f]
     /\ \A id \in DOMAIN users :
          (\E f \in LoginColumns : users'[id][f] # users[id][f]) =>
            \E p \in AllProcs : WriterOf(p, id)]_vars

C30_Witness ==
  /\ DOMAIN users = {1, 2, 3}
  /\ users[3].email = "c@x.com"
  /\ users[2].name = "Bia B."
  /\ users[2].status = "INACTIVE"
  /\ users[2].failed_attempts = MAX
  /\ users[2].locked_until # NULL
  /\ users[2].password_hash = BcryptHash("senhaB2")
  /\ users[2].profile = "ADMIN"

(* The header carries a token that a login issued, not yet expired *)
ValidToken(header) == BearsIssued(header) /\ now < header.rest.exp

(* The step refuses the request with this status and changes nothing *)
Refused(status) ==
  /\ http' # <<>>
  /\ http'[1].status = status
  /\ users' = users
  /\ creating' = creating

(* C31: a request to create a user, to update a user or to change a status  *)
(* whose header carries no token that a login issued and that has not       *)
(* expired is answered 401, one whose token is valid with a profile other   *)
(* than ADMIN is answered 403, and neither creates or changes a row nor     *)
(* starts a creation; a creation starts, and a row changes other than by    *)
(* the UPDATE of a login or the INSERT of a creation that had started, only *)
(* in a step of one of these routes taken with a valid ADMIN token.         *)
C31_AdminOnlyMutations ==
  [][/\ \A header \in AdminHeaders :
          (\/ \E data \in CreateInputs : PostUser(header, 1, data)
           \/ \E payload \in AdminPayloads : PutUser(header, 2, payload)
           \/ \E status \in Statuses : PatchUserStatus(header, 3, status))
          => IF ~ValidToken(header) THEN Refused(401)
             ELSE IF header.rest.profile # "ADMIN" THEN Refused(403)
             ELSE http' = <<>> \/ http'[1].status \notin {401, 403}
     /\ (\/ \E c \in Creators : creating[c] = <<>> /\ creating'[c] # <<>>
         \/ /\ users' # users
            /\ \A p \in AllProcs : ~StepOf(p)
            /\ creating' = creating)
        => \E header \in AdminHeaders :
             /\ ValidToken(header)
             /\ header.rest.profile = "ADMIN"
             /\ \/ \E data \in CreateInputs : PostUser(header, 1, data)
                \/ \E payload \in AdminPayloads : PutUser(header, 2, payload)
                \/ \E status \in Statuses :
                     PatchUserStatus(header, 3, status)]_vars

C31_Witness ==
  /\ http # <<>> /\ Protected(http[1])
  /\ LET h == http[1]
     IN  /\ h.route = "POST /users"
         /\ h.status = 403
         /\ h.auth = <<[userId |-> "2", profile |-> "USER"]>>
         /\ BearsIssued(h.header)
  /\ DOMAIN users = {1, 2, 3}
  /\ users[3].status = "INACTIVE"

(* C32: no two accounts have the same email, whatever createUser and        *)
(* updateUser calls ran and however the calls of createUser interleaved; a  *)
(* createUser for an email that some account has answers 409, starts no     *)
(* INSERT and leaves the table as it was.                                   *)
C32_UniqueEmail ==
  /\ [](\A i \in DOMAIN users, j \in DOMAIN users :
          i # j => users[i].email # users[j].email)
  /\ [][\A c \in Creators, data \in CreateInputs :
          (/\ CreateUserSelect(c, data)
           /\ \E id \in DOMAIN users : users[id].email = data.email)
            => /\ http' = <<Reply(409, [message |-> conflictMsg])>>
               /\ users' = users
               /\ creating' = creating]_vars

(* Accounts 1 and 2 exchanged their emails by updates; two creations of     *)
(* c@x.com both passed the SELECT, one has inserted account 3 and got 201,  *)
(* the other stands before its INSERT                                       *)
C32_Witness ==
  /\ DOMAIN users = {1, 2, 3}
  /\ users[1].email = "b@x.com"
  /\ users[2].email = "a@x.com"
  /\ users[3].email = "c@x.com"
  /\ http # <<>>
  /\ http[1].status = 201
  /\ \E c \in Creators :
       /\ creating[c] # <<>>
       /\ creating[c][1].email = "c@x.com"

====
